---- MODULE Spec2Model ----
(***************************************************************************)
(* A model of ebook-sorter (src/src/main.rs): the traversal of the root    *)
(* directory, the extraction of the metadata of every *.epub entry, the    *)
(* derivation of the author directory and of the destination file name,    *)
(* and the placement (copy or move) with its error list and progress bar.  *)
(*                                                                         *)
(* Text is a sequence of one-character strings, so that trimming, joining  *)
(* and the splitting of a path into its components are computed and not    *)
(* assumed.  An Option is <<>> (None) or <<x>> (Some(x)).                   *)
(***************************************************************************)
EXTENDS Naturals, Sequences, FiniteSets, TLC

(***************************************************************************)
(* Bounds of the model.                                                    *)
(***************************************************************************)
\* longest text of a metadata value or of a file stem drawn for the planner
MaxLen == 2
\* longest value list under one metadata key drawn for the planner
MaxList == 2
\* number of files the root holds when the run starts
MaxFiles == 2
\* number of filesystem operations the environment fails in one run
MaxFaults == 1

(***************************************************************************)
(* Text.                                                                   *)
(***************************************************************************)
None == <<>>
Some(x) == <<x>>

\* a byte that is not valid UTF-8 (file names are OsStr, not String)
BadByte == "\\xFF"
\* U+FFFD, what to_string_lossy puts in the place of an invalid sequence
Replacement == "\\uFFFD"

EPUB == <<"e", "p", "u", "b">>
DotEpub == <<".">> \o EPUB
CommaSpace == <<",", " ">>
Unsorted == <<"U", "n", "s", "o", "r", "t", "e", "d">>
Sep == "/"

IsSpace(c) == c = " "

RECURSIVE TrimStart(_)
TrimStart(s) ==
    IF s # <<>> /\ IsSpace(Head(s)) THEN TrimStart(Tail(s)) ELSE s

RECURSIVE TrimEnd(_)
TrimEnd(s) ==
    IF s # <<>> /\ IsSpace(s[Len(s)]) THEN TrimEnd(SubSeq(s, 1, Len(s) - 1)) ELSE s

\* str::trim
Trim(s) == TrimEnd(TrimStart(s))

\* OsStr::to_string_lossy
to_string_lossy(s) == [i \in 1..Len(s) |-> IF s[i] = BadByte THEN Replacement ELSE s[i]]

\* [String]::join(sep)
RECURSIVE join(_, _)
join(list, sep) ==
    IF list = <<>> THEN <<>>
    ELSE IF Len(list) = 1 THEN list[1]
    ELSE list[1] \o sep \o join(Tail(list), sep)

(***************************************************************************)
(* Paths.  A path is text; the filesystem is keyed by the components a     *)
(* path resolves to.                                                       *)
(***************************************************************************)
\* Path::is_absolute
IsAbsolute(p) == p # <<>> /\ p[1] = Sep

\* PathBuf::join: an absolute argument replaces the path, anything else is
\* appended after a separator (also the empty text, which leaves "base/")
PathJoin(base, p) ==
    IF IsAbsolute(p) THEN p
    ELSE IF base # <<>> /\ base[Len(base)] # Sep THEN base \o <<Sep>> \o p
    ELSE base \o p

\* the components of a path, as the operating system resolves them
RECURSIVE Split(_, _)
Split(p, acc) ==
    IF p = <<>> THEN (IF acc = <<>> THEN <<>> ELSE <<acc>>)
    ELSE IF Head(p) = Sep
         THEN (IF acc = <<>> THEN <<>> ELSE <<acc>>) \o Split(Tail(p), <<>>)
         ELSE Split(Tail(p), Append(acc, Head(p)))

Resolve(p) == Split(p, <<>>)

\* the text of a resolved absolute path
RECURSIVE PathText(_)
PathText(cs) == IF cs = <<>> THEN <<>> ELSE <<Sep>> \o Head(cs) \o PathText(Tail(cs))

LastDot(name) ==
    LET ds == {i \in 1..Len(name) : name[i] = "."}
    IN  IF ds = {} THEN 0 ELSE CHOOSE i \in ds : \A j \in ds : j <= i

\* Path::extension of a path whose last component is name: the text after the
\* last dot, None when there is no dot or the only dot starts the name
Extension(name) ==
    IF name = <<".", ".">> \/ LastDot(name) <= 1 THEN None
    ELSE Some(SubSeq(name, LastDot(name) + 1, Len(name)))

IsEpub(name) == Extension(name) = Some(EPUB)

(***************************************************************************)
(* Placement planning: main.rs lines 93-99 and format_book.  A book is the *)
(* metadata mapping of a parsed document: under each key an Option of a    *)
(* list of values (HashMap::get).                                          *)
(***************************************************************************)
\* lines 93-97: the author directory name
creator(book) ==
    IF book.creator = None THEN Unsorted ELSE join(book.creator[1], CommaSpace)

\* line 99
author_dir(output, book) == PathJoin(output, creator(book))

\* format_book with the trimming of the title forgotten
FormatBookUntrimmed(book, name) ==
    IF book.title # None /\ book.title[1] # <<>>
    THEN book.title[1][1] \o DotEpub
    ELSE Trim(to_string_lossy(name))
\* format_book putting the extension also after the file's own name
FormatBookAlwaysAppends(book, name) ==
    IF book.title # None /\ book.title[1] # <<>>
    THEN Trim(book.title[1][1]) \o DotEpub
    ELSE Trim(to_string_lossy(name)) \o DotEpub

\* lines 153-158; name is entry.file_name()
format_book(book, name) ==
    IF book.title # None /\ book.title[1] # <<>>
    THEN Trim(book.title[1][1]) \o DotEpub
    ELSE Trim(to_string_lossy(name))

\* line 108
destination(output, book, name) == PathJoin(author_dir(output, book), format_book(book, name))

(***************************************************************************)
(* The filesystem: a function from resolved paths to nodes.  A file holds  *)
(* its data: an identity of its bytes and what EpubDoc::new makes of them. *)
(***************************************************************************)
NoMeta == [creator |-> None, title |-> None]
\* the bytes of an empty file: no EPUB container
EmptyData == [id |-> 0, ok |-> FALSE, meta |-> NoMeta]
DirNode == [kind |-> "dir", data |-> EmptyData]
FileNode(d) == [kind |-> "file", data |-> d]

Last(s) == s[Len(s)]
Parent(cs) == SubSeq(cs, 1, Len(cs) - 1)
Prefixes(cs) == {SubSeq(cs, 1, k) : k \in 0..Len(cs)}
IsUnder(cs, dir) == Len(cs) >= Len(dir) /\ SubSeq(cs, 1, Len(dir)) = dir

IsDir(f, cs) == cs \in DOMAIN f /\ f[cs].kind = "dir"
IsFile(f, cs) == cs \in DOMAIN f /\ f[cs].kind = "file"

\* the names a directory lists (read_dir)
ChildNames(f, dir) == {Last(q) : q \in {c \in DOMAIN f : c # <<>> /\ Parent(c) = dir}}

\* std::fs::create_dir_all
CanCreateDirAll(f, cs) == \A p \in Prefixes(cs) : p \in DOMAIN f => f[p].kind = "dir"
create_dir_all(f, cs) ==
    [p \in DOMAIN f \cup Prefixes(cs) |-> IF p \in DOMAIN f THEN f[p] ELSE DirNode]

\* what rename(2) and the opening of a copy's destination both need
CanPlace(f, s, d) ==
    /\ IsFile(f, s)
    /\ d # <<>>
    /\ IsDir(f, Parent(d))
    /\ ~IsDir(f, d)

\* a rename that leaves the source behind
RenameKeepsSource(f, s, d) == [p \in DOMAIN f \cup {d} |-> IF p = d THEN f[s] ELSE f[p]]

\* std::fs::rename; onto itself it does nothing and succeeds
rename(f, s, d) ==
    IF s = d THEN f
    ELSE [p \in (DOMAIN f \ {s}) \cup {d} |-> IF p = d THEN f[s] ELSE f[p]]

\* std::fs::copy onto another path
copy(f, s, d) == [p \in DOMAIN f \cup {d} |-> IF p = d THEN f[s] ELSE f[p]]

\* std::fs::copy onto the source itself: the destination is opened with
\* truncation before a byte is read
copy_self(f, s) == [f EXCEPT ![s] = FileNode(EmptyData)]

\* a parser that takes every file for a container
ParseOkAnyFile(f, cs) == IsFile(f, cs)

\* EpubDoc::new(path) succeeds
ParseOk(f, cs) == IsFile(f, cs) /\ f[cs].data.ok

(***************************************************************************)
(* The state of a run.                                                     *)
(***************************************************************************)
VARIABLES
    strategy,     \* args.strategy: "Copy" or "Move"
    output,       \* the output directory, as text
    fs,           \* the filesystem
    pc,           \* where main stands
    walkRoot,     \* the walker has not yet yielded the root itself
    stack,        \* the walker's open directories, the innermost last
    cur,          \* entry.path() of the candidate in hand
    book,         \* book.metadata of the candidate in hand
    dest,         \* destination, as text
    errors,       \* the error list
    total_files,  \* the length of the progress bar
    pos,          \* the position of the progress bar
    faults,       \* operations the environment has failed in this run
    second,       \* this is the second run over the same root
    firstErrors,  \* the number of errors the first run recorded
    fsStart,      \* history: the filesystem when this run started
    log,          \* history: the candidates processed in this run, in order
    pin,          \* the planner alone: its input
    pout          \* the planner alone: its result

vars ==
    <<strategy, output, fs, pc, walkRoot, stack, cur, book, dest, errors,
      total_files, pos, faults, second, firstErrors, fsStart, log, pin, pout>>

runVars ==
    <<strategy, output, fs, pc, walkRoot, stack, cur, book, dest, errors,
      total_files, pos, faults, second, firstErrors, fsStart, log>>

(***************************************************************************)
(* The roots, outputs, files and books the model draws from.               *)
(***************************************************************************)
RootText == <<"/", "r">>
Root == Resolve(RootText)

\* output defaults to root (line 50), or lies under it, or outside it
Outputs == {RootText, <<"/", "r", "/", "o">>, <<"/", "o">>}

J == <<"J">>
K == <<"K">>
T == <<"T">>
JK == J \o CommaSpace \o K

\* what the files hold
Corrupt == [ok |-> FALSE, meta |-> NoMeta, dir |-> FALSE]
Books ==
    { Corrupt,
      \* an empty metadata mapping
      [ok |-> TRUE, dir |-> FALSE, meta |-> NoMeta],
      \* two authors, a title with a blank before it
      [ok |-> TRUE, dir |-> FALSE,
       meta |-> [creator |-> Some(<<J, K>>), title |-> Some(<<<<" ">> \o T>>)]],
      \* the creator key present with an empty list
      [ok |-> TRUE, dir |-> FALSE, meta |-> [creator |-> Some(<<>>), title |-> Some(<<T>>)]],
      \* a title that is an absolute path
      [ok |-> TRUE, dir |-> FALSE,
       meta |-> [creator |-> Some(<<J>>), title |-> Some(<<<<Sep, "t">>>>)]] }

\* where files may lie when the run starts: in the root, where the book of
\* J and K belongs once sorted into the root, and a file that is no candidate
Slots ==
    << Root \o << <<"a">> \o DotEpub >>,
       Root \o << JK, T \o DotEpub >>,
       Root \o << <<"n", ".", "t", "x", "t">> >> >>

\* a directory in the place of a file: its name may end in .epub as well
Directory == [ok |-> FALSE, meta |-> NoMeta, dir |-> TRUE]

SlotBooks(i) ==
    IF ~IsEpub(Last(Slots[i])) THEN {Corrupt}
    ELSE IF Len(Slots[i]) > Len(Root) + 1 THEN Books \cup {Directory}
    ELSE Books

\* the filesystem holding the files of a placement: slot -> book
TreeOf(placed) ==
    LET files == {Slots[i] : i \in DOMAIN placed}
        dirs == UNION {Prefixes(Parent(q)) : q \in files} \cup Prefixes(Root)
        slotOf(q) == CHOOSE i \in DOMAIN placed : Slots[i] = q
    IN  [q \in files \cup dirs |->
            IF q \in files /\ ~placed[slotOf(q)].dir
            THEN FileNode([id |-> slotOf(q), ok |-> placed[slotOf(q)].ok,
                           meta |-> placed[slotOf(q)].meta])
            ELSE DirNode]

Placements ==
    UNION {{f \in [S -> Books \cup {Directory}] : \A i \in S : f[i] \in SlotBooks(i)} :
              S \in {S \in SUBSET (1..Len(Slots)) : Cardinality(S) <= MaxFiles}}

NoPath == <<>>
NoPlan == [dir |-> <<>>, file |-> <<>>, done |-> FALSE]
NoInput == [book |-> NoMeta, name |-> <<>>]

Init ==
    /\ strategy \in {"Copy", "Move"}
    /\ output \in Outputs
    /\ \E placed \in Placements : fs = TreeOf(placed)
    /\ pc = "start"
    /\ walkRoot = FALSE
    /\ stack = <<>>
    /\ cur = NoPath
    /\ book = NoMeta
    /\ dest = <<>>
    /\ errors = <<>>
    /\ total_files = 0
    /\ pos = 0
    /\ faults = 0
    /\ second = FALSE
    /\ firstErrors = 0
    /\ fsStart = fs
    /\ log = <<>>
    /\ pin = NoInput
    /\ pout = NoPlan

(***************************************************************************)
(* main, lines 52-63: the error list, the counting traversal, the bar.     *)
(***************************************************************************)
\* lines 54-59 and 67-74: the entries under root (root included) whose
\* extension is epub
Candidates(f) == {q \in DOMAIN f : q # <<>> /\ IsUnder(q, Root) /\ IsEpub(Last(q))}

CountEpub(f) == Cardinality(Candidates(f))

CountFiles ==
    /\ pc = "start"
    /\ errors' = <<>>
    /\ total_files' = CountEpub(fs)
    /\ pos' = 0
    /\ walkRoot' = TRUE
    /\ stack' = <<>>
    /\ pc' = "walk"
    /\ UNCHANGED <<strategy, output, fs, cur, book, dest, faults, second,
                   firstErrors, fsStart, log, pin, pout>>

(***************************************************************************)
(* The walker (WalkDir, line 65) and the head of the loop (lines 67-74).   *)
(* A directory is opened when its entry is yielded.  The entries it held   *)
(* then are all yielded, in an order the filesystem chooses; an entry      *)
(* added while the directory is open may be yielded or not (readdir leaves *)
(* it unspecified).                                                        *)
(***************************************************************************)
Frame(f, dir) == [dir |-> dir, pending |-> ChildNames(f, dir), seen |-> {}]

Top == stack[Len(stack)]

Yielded(n) ==
    [stack EXCEPT ![Len(stack)] =
        [dir |-> Top.dir, pending |-> Top.pending \ {n}, seen |-> Top.seen \cup {n}]]

\* the entry is yielded to the loop: a directory is opened, and lines 68-74
\* let only an entry with extension epub through
Visit(entry, stk) ==
    /\ stack' = IF IsDir(fs, entry) THEN Append(stk, Frame(fs, entry)) ELSE stk
    /\ IF IsEpub(Last(entry))
       THEN pc' = "extract" /\ cur' = entry
       ELSE pc' = "walk" /\ cur' = NoPath
    /\ UNCHANGED <<strategy, output, fs, book, dest, errors, total_files, pos,
                   faults, second, firstErrors, fsStart, log, pin, pout>>

WalkRoot ==
    /\ pc = "walk"
    /\ walkRoot
    /\ walkRoot' = FALSE
    /\ Visit(Root, stack)

WalkEntry ==
    /\ pc = "walk"
    /\ ~walkRoot
    /\ stack # <<>>
    /\ \E n \in Top.pending : Visit(Top.dir \o <<n>>, Yielded(n))
    /\ UNCHANGED walkRoot

WalkLate ==
    /\ pc = "walk"
    /\ ~walkRoot
    /\ stack # <<>>
    /\ \E n \in ChildNames(fs, Top.dir) \ (Top.pending \cup Top.seen) :
           Visit(Top.dir \o <<n>>, Yielded(n))
    /\ UNCHANGED walkRoot

WalkPop ==
    /\ pc = "walk"
    /\ ~walkRoot
    /\ stack # <<>>
    /\ Top.pending = {}
    /\ stack' = SubSeq(stack, 1, Len(stack) - 1)
    /\ UNCHANGED <<strategy, output, fs, pc, walkRoot, cur, book, dest, errors,
                   total_files, pos, faults, second, firstErrors, fsStart, log,
                   pin, pout>>

WalkEnd ==
    /\ pc = "walk"
    /\ ~walkRoot
    /\ stack = <<>>
    /\ pc' = "finish"
    /\ UNCHANGED <<strategy, output, fs, walkRoot, stack, cur, book, dest, errors,
                   total_files, pos, faults, second, firstErrors, fsStart, log,
                   pin, pout>>

(***************************************************************************)
(* The body of the loop, lines 76-125.                                     *)
(***************************************************************************)
InvalidEbook(cs) == [kind |-> "InvalidEbook", path |-> Some(PathText(cs))]
IoError == [kind |-> "IoError", path |-> None]

Event(cs, outcome, d) == [path |-> cs, outcome |-> outcome, dest |-> d]

\* the candidate is given up: the next iteration starts
Continue ==
    /\ pc' = "walk"
    /\ cur' = NoPath
    /\ book' = NoMeta
    /\ dest' = <<>>

\* lines 81-82
ExtractOk ==
    /\ pc = "extract"
    /\ ParseOk(fs, cur)
    /\ book' = fs[cur].data.meta
    /\ pc' = "plan"
    /\ UNCHANGED <<strategy, output, fs, walkRoot, stack, cur, dest, errors,
                   total_files, pos, faults, second, firstErrors, fsStart, log,
                   pin, pout>>

\* the failure returned from main with `?` in place of the push and continue
ExtractFailAborts ==
    /\ pc = "extract"
    /\ ~ParseOk(fs, cur)
    /\ errors' = Append(errors, InvalidEbook(cur))
    /\ pos' = pos + 1
    /\ log' = Append(log, Event(cur, "MetadataFailed", NoPath))
    /\ pc' = "done"
    /\ cur' = NoPath
    /\ book' = NoMeta
    /\ dest' = <<>>
    /\ UNCHANGED <<strategy, output, fs, walkRoot, stack, total_files, faults,
                   second, firstErrors, fsStart, pin, pout>>

\* lines 83-90
ExtractFail ==
    /\ pc = "extract"
    /\ ~ParseOk(fs, cur)
    /\ errors' = Append(errors, InvalidEbook(cur))
    /\ pos' = pos + 1
    /\ log' = Append(log, Event(cur, "MetadataFailed", NoPath))
    /\ Continue
    /\ UNCHANGED <<strategy, output, fs, walkRoot, stack, total_files, faults,
                   second, firstErrors, fsStart, pin, pout>>

AuthorDir == Resolve(author_dir(output, book))

\* lines 93-108 when the author directory exists or is created
PlanOk ==
    /\ pc = "plan"
    /\ AuthorDir \in DOMAIN fs \/ CanCreateDirAll(fs, AuthorDir)
    /\ fs' = IF AuthorDir \in DOMAIN fs THEN fs ELSE create_dir_all(fs, AuthorDir)
    /\ dest' = destination(output, book, Last(cur))
    /\ pc' = "place"
    /\ UNCHANGED <<strategy, output, walkRoot, stack, cur, book, errors,
                   total_files, pos, faults, second, firstErrors, fsStart, log,
                   pin, pout>>

\* lines 100-106 when create_dir_all fails: a file stands in the way, or the
\* environment refuses (at most MaxFaults times in a run; nothing is created)
PlanFail ==
    /\ pc = "plan"
    /\ AuthorDir \notin DOMAIN fs
    /\ \/ ~CanCreateDirAll(fs, AuthorDir) /\ faults' = faults
       \/ CanCreateDirAll(fs, AuthorDir) /\ faults < MaxFaults /\ faults' = faults + 1
    /\ errors' = Append(errors, IoError)
    /\ pos' = pos + 1
    /\ log' = Append(log, Event(cur, "PlaceFailed", NoPath))
    /\ Continue
    /\ UNCHANGED <<strategy, output, fs, walkRoot, stack, total_files, second,
                   firstErrors, fsStart, pin, pout>>

\* lines 110-125 when the copy or the rename succeeds
PlaceOk ==
    /\ pc = "place"
    /\ CanPlace(fs, cur, Resolve(dest))
    /\ fs' = IF strategy = "Move" THEN rename(fs, cur, Resolve(dest))
             ELSE IF cur = Resolve(dest) THEN copy_self(fs, cur)
             ELSE copy(fs, cur, Resolve(dest))
    /\ pos' = pos + 1
    /\ log' = Append(log, Event(cur, "Placed", Resolve(dest)))
    /\ Continue
    /\ UNCHANGED <<strategy, output, walkRoot, stack, errors, total_files, faults,
                   second, firstErrors, fsStart, pin, pout>>

\* lines 112-115 and 118-121: the copy or the rename fails
PlaceFail ==
    /\ pc = "place"
    /\ \/ ~CanPlace(fs, cur, Resolve(dest)) /\ faults' = faults
       \/ CanPlace(fs, cur, Resolve(dest)) /\ faults < MaxFaults /\ faults' = faults + 1
    /\ errors' = Append(errors, IoError)
    /\ log' = Append(log, Event(cur, "PlaceFailed", Resolve(dest)))
    /\ Continue
    /\ UNCHANGED <<strategy, output, fs, walkRoot, stack, total_files, pos, second,
                   firstErrors, fsStart, pin, pout>>

\* lines 128-150: ProgressBar::finish moves the position to the length; the
\* table is printed and main returns Ok
Finish ==
    /\ pc = "finish"
    /\ pos' = total_files
    /\ pc' = "done"
    /\ UNCHANGED <<strategy, output, fs, walkRoot, stack, cur, book, dest, errors,
                   total_files, faults, second, firstErrors, fsStart, log, pin, pout>>

\* the tool is started once more with the same arguments
Rerun ==
    /\ pc = "done"
    /\ ~second
    /\ second' = TRUE
    /\ firstErrors' = Len(errors)
    /\ fsStart' = fs
    /\ log' = <<>>
    /\ faults' = 0
    /\ pc' = "start"
    /\ UNCHANGED <<strategy, output, fs, walkRoot, stack, cur, book, dest, errors,
                   total_files, pos, pin, pout>>

Next ==
    \/ CountFiles
    \/ WalkRoot
    \/ WalkEntry
    \/ WalkLate
    \/ WalkPop
    \/ WalkEnd
    \/ ExtractOk
    \/ ExtractFail
    \/ PlanOk
    \/ PlanFail
    \/ PlaceOk
    \/ PlaceFail
    \/ Finish
    \/ Rerun

Spec == Init /\ [][Next]_vars

(***************************************************************************)
(* The planner alone: creator and format_book applied to metadata and file *)
(* names drawn from all short texts.                                       *)
(***************************************************************************)
Texts(alphabet, n) == UNION {[1..k -> alphabet] : k \in 0..n}

PlanValues == Texts({"t", " "}, MaxLen)
PlanTails == Texts({<<"u">>, <<" ">>}, MaxList - 1)
PlanLists == {<<>>} \cup {<<h>> \o tl : h \in PlanValues, tl \in PlanTails}
PlanOptions == {None} \cup {Some(l) : l \in PlanLists}
PlanNames == {n \in {stem \o DotEpub : stem \in Texts({"a", " ", BadByte}, MaxLen)} : IsEpub(n)}

PlanInputs ==
    {[book |-> [creator |-> c, title |-> t], name |-> n] :
        c \in PlanOptions, t \in PlanOptions, n \in PlanNames}

InitPlan ==
    /\ strategy = "Move"
    /\ output = RootText
    /\ fs = TreeOf(<<>>)
    /\ pc = "planner"
    /\ walkRoot = FALSE
    /\ stack = <<>>
    /\ cur = NoPath
    /\ book = NoMeta
    /\ dest = <<>>
    /\ errors = <<>>
    /\ total_files = 0
    /\ pos = 0
    /\ faults = 0
    /\ second = FALSE
    /\ firstErrors = 0
    /\ fsStart = fs
    /\ log = <<>>
    /\ pin \in PlanInputs
    /\ pout = NoPlan

\* lines 93-97 and 107 on the input
ApplyPlan ==
    /\ pc = "planner"
    /\ ~pout.done
    /\ pout' = [dir |-> creator(pin.book), file |-> format_book(pin.book, pin.name),
                done |-> TRUE]
    /\ UNCHANGED <<runVars, pin>>

NextPlan == ApplyPlan

SpecPlan == InitPlan /\ [][NextPlan]_vars

(***************************************************************************)
(* What the properties below speak of.                                     *)
(***************************************************************************)
\* the step gives up or completes the candidate in hand
Placed == log' # log /\ Last(log').outcome = "Placed"
PlaceFailed == log' # log /\ Last(log').outcome = "PlaceFailed"

\* t is s without the blanks at its two ends
IsTrimOf(t, s) ==
    /\ t = <<>> \/ (~IsSpace(t[1]) /\ ~IsSpace(t[Len(t)]))
    /\ \E a \in 0..Len(s) :
          /\ a + Len(t) <= Len(s)
          /\ SubSeq(s, a + 1, a + Len(t)) = t
          /\ \A i \in 1..Len(s) : (i <= a \/ i > a + Len(t)) => IsSpace(s[i])

\* the text of a list written out value by value with ", " between
IsJoinOf(t, list) ==
    \E cut \in [0..Len(list) -> 0..Len(t)] :
        /\ cut[0] = 0
        /\ Len(list) = 0 => t = <<>>
        /\ \A i \in 1..Len(list) :
              /\ cut[i] = cut[i - 1] + Len(list[i]) + (IF i > 1 THEN 2 ELSE 0)
              /\ cut[i] <= Len(t)
              /\ SubSeq(t, cut[i] - Len(list[i]) + 1, cut[i]) = list[i]
              /\ i > 1 => SubSeq(t, cut[i - 1] + 1, cut[i - 1] + 2) = CommaSpace
        /\ cut[Len(list)] = Len(t)

HasCreators(b) == b.creator # None /\ b.creator[1] # <<>>
HasTitle(b) == b.title # None /\ b.title[1] # <<>>

\* the error records a sequence of processed candidates leaves
RECURSIVE ErrorsOf(_)
ErrorsOf(events) ==
    IF events = <<>> THEN <<>>
    ELSE LET e == Head(events)
         IN  (IF e.outcome = "MetadataFailed"
                 THEN <<[kind |-> "InvalidEbook", path |-> Some(PathText(e.path))]>>
              ELSE IF e.outcome = "PlaceFailed"
                 THEN <<[kind |-> "IoError", path |-> None]>>
              ELSE <<>>) \o ErrorsOf(Tail(events))

(***************************************************************************)
(* C1: for every candidate that parses and has a non-empty creator list,   *)
(* the author directory name is the list joined with ", ", and after a     *)
(* successful placement the file lies under output/<that name>/.           *)
(***************************************************************************)
C1_UnderAuthorDir ==
    [][(pc = "place" /\ HasCreators(book) /\ Placed) =>
          /\ IsJoinOf(creator(book), book.creator[1])
          /\ IsFile(fs', Resolve(dest))
          /\ IsUnder(Parent(Resolve(dest)),
                     Resolve(output \o <<Sep>> \o creator(book) \o <<Sep>>))]_vars

(***************************************************************************)
(* C2: for every candidate that parses, the author directory name is       *)
(* "Unsorted" whenever the creator key is absent or its list is empty, and *)
(* on a successful placement the file lies under output/Unsorted/.         *)
(***************************************************************************)
C2_UnsortedWithoutCreator ==
    [][(pc = "place" /\ ~HasCreators(book) /\ Placed) =>
          /\ creator(book) = Unsorted
          /\ IsFile(fs', Resolve(dest))
          /\ IsUnder(Parent(Resolve(dest)), Resolve(output) \o <<Unsorted>>)]_vars

C4_MetadataFailure ==
    [][(pc = "extract" /\ ~(IsFile(fs, cur) /\ fs[cur].data.ok)) =>
          /\ errors' = Append(errors, [kind |-> "InvalidEbook", path |-> Some(PathText(cur))])
          /\ fs' = fs
          /\ dest' = <<>>
          /\ pc' = "walk"]_vars

\* a corrupt file has just been given up and is still in its place
C4_Witness ==
    /\ pc = "walk"
    /\ log # <<>>
    /\ Last(log).outcome = "MetadataFailed"
    /\ IsFile(fs, Last(log).path)
    /\ errors # <<>>
    /\ Last(errors).path = Some(PathText(Last(log).path))

(***************************************************************************)
(* C5: no failure of a candidate ends the run: the loop can always go on,  *)
(* every candidate that was under root when the run started is processed,  *)
(* and the error list holds one record for each failed candidate and none  *)
(* for a placed one, in the order of processing.                           *)
(***************************************************************************)
C5_FailuresAreRecorded ==
    /\ pc \in {"walk", "extract", "plan", "place", "finish", "done"} =>
          errors = ErrorsOf(log)
    /\ pc \in {"start", "walk", "extract", "plan", "place", "finish"} => ENABLED Next
    /\ pc = "done" => \A q \in Candidates(fsStart) : \E i \in 1..Len(log) : log[i].path = q

\* a run that ended after a metadata failure and, later, an I/O failure
C5_Witness ==
    /\ pc = "done"
    /\ Len(errors) = 2
    /\ errors[1].kind = "InvalidEbook"
    /\ errors[2].kind = "IoError"

(***************************************************************************)
(* C6: after a run with the Copy strategy every original source file is    *)
(* still at its path, unchanged, and its computed destination holds the    *)
(* same bytes.                                                             *)
(***************************************************************************)
C6_CopyKeepsAndDuplicates ==
    (pc = "done" /\ ~second /\ strategy = "Copy") =>
        \A q \in Candidates(fsStart) :
            IsFile(fsStart, q) =>
                /\ IsFile(fs, q)
                /\ fs[q].data = fsStart[q].data
                /\ \A i \in 1..Len(log) :
                      (log[i].path = q /\ log[i].outcome = "Placed") =>
                          /\ IsFile(fs, log[i].dest)
                          /\ fs[log[i].dest].data = fsStart[q].data

C8_MoveRemovesSource ==
    [][(strategy = "Move" /\ pc \in {"plan", "place"}) =>
          /\ Placed =>
                /\ IsFile(fs', Resolve(destination(output, book, Last(cur))))
                /\ fs'[Resolve(destination(output, book, Last(cur)))].data = fs[cur].data
                /\ errors' = errors
                /\ cur \notin DOMAIN fs'
          /\ PlaceFailed => (IsFile(fs', cur) /\ fs'[cur] = fs[cur])]_vars

\* C8 as the code has it: the original path is gone unless it is the
\* destination itself
C8_MoveEffect ==
    [][(strategy = "Move" /\ pc \in {"plan", "place"}) =>
          /\ Placed =>
                /\ IsFile(fs', Resolve(destination(output, book, Last(cur))))
                /\ fs'[Resolve(destination(output, book, Last(cur)))].data = fs[cur].data
                /\ errors' = errors
                /\ cur \notin DOMAIN fs' \/ cur = Resolve(destination(output, book, Last(cur)))
          /\ PlaceFailed => (IsFile(fs', cur) /\ fs'[cur] = fs[cur])]_vars

\* a file has just been moved away from where it was
C8_Witness ==
    /\ strategy = "Move"
    /\ pc = "walk"
    /\ log # <<>>
    /\ Last(log).outcome = "Placed"
    /\ Last(log).path \notin DOMAIN fs
    /\ IsFile(fs, Last(log).dest)
    /\ errors = <<>>

(***************************************************************************)
(* C9: every candidate goes Discovered -> MetadataFailed, or Discovered -> *)
(* MetadataExtracted -> Planned -> Placed or PlaceFailed, and is never     *)
(* processed again: no entry is processed twice, and no file the run has   *)
(* placed is processed by the same traversal.                              *)
(***************************************************************************)
C9_NoCandidateRevisited ==
    /\ [][/\ pc = "extract" => pc' \in {"plan", "walk"}
          /\ pc = "plan" => pc' \in {"place", "walk"}
          /\ pc = "place" => pc' = "walk"
          /\ (log' # log /\ second' = second) =>
                (pc \in {"extract", "plan", "place"} /\ log' = Append(log, Last(log')))]_vars
    /\ [][\A i \in 1..Len(log') : \A j \in 1..Len(log') :
            i < j => /\ log'[i].path # log'[j].path
                     /\ log'[i].outcome = "Placed" => log'[i].dest # log'[j].path]_vars

(***************************************************************************)
(* C10: when the traversal has ended, the bar has been advanced once for   *)
(* every candidate processed, whatever its end, and as many candidates     *)
(* were processed as the first traversal counted.                          *)
(***************************************************************************)
C10_ProgressReachesTotal ==
    pc = "finish" => (pos = Len(log) /\ Len(log) = total_files)

====
